---- MODULE Spec2Model ----
(***************************************************************************)
(* A model of src/main.py, the Bing daily wallpaper collector.             *)
(*                                                                         *)
(* One process run is the method BingWallpaperCollector.run(): a metadata  *)
(* GET, the derivation of a WallpaperData record, mkdir of the year        *)
(* directory, the existence check of the save path, the image GET and its  *)
(* write, and the overwrite of README.md.  The filesystem (directories,    *)
(* image files, README.md) persists between runs; the clock may advance    *)
(* between runs, and each GET gets whatever the server answers then.       *)
(*                                                                         *)
(* Strings whose characters the code inspects (the caption, the end date,  *)
(* the file name) are sequences of one-character strings.                  *)
(***************************************************************************)
EXTENDS Integers, Sequences, FiniteSets, TLC

VARIABLES
    today,      \* the clock: a day number; date.today() reads it
    dirs,       \* the year directories that exist under output_dir
    files,      \* the image files on disk: save path -> bytes
    readme,     \* README.md: the sequence of blocks it holds, <<>> when empty
    pc,         \* where the process is: "idle", a step of run(), or "exited"
    exitCode,   \* the exit status of the last process (-1 before the first exit)
    market,     \* self.market
    resp,       \* the response to the metadata GET of the current run
    metadata,   \* run()'s local `metadata`
    year_dir,   \* run()'s local `year_dir`: the year it names
    save_path,  \* run()'s local `save_path`
    metaGets,   \* GETs issued to BING_API_URL in the current run
    imgGets,    \* GETs issued to an image URL in the current run
    log,        \* the messages the current run has logged
    runNo,      \* the number of runs launched (history variable)
    started,    \* the day and the filesystem at the launch of the current run (history variable)
    prev,       \* a summary of the previous run (history variable)
    hist        \* what is known of README.md's writes (history variable)

vars == <<today, dirs, files, readme, pc, exitCode, market, resp, metadata, year_dir,
          save_path, metaGets, imgGets, log, runNo, started, prev, hist>>

(***************************************************************************)
(* Bounds of the model.                                                    *)
(***************************************************************************)
MaxRuns == 2        \* process launches in one behaviour
MaxDay == 2         \* the clock runs over the days 0..MaxDay
DaysInYear == 2     \* the model's year has this many days
MaxLen == 4         \* longest caption of the exhaustive derivation check

(***************************************************************************)
(* Constants of the program.                                               *)
(***************************************************************************)
BING_BASE_URL == <<"https://www.bing.com">>
BING_API_URL == <<"https://www.bing.com/HPImageArchive.aspx">>

\* The character class of _clean_filename's regular expression.
Forbidden == {"\\", "/", "*", "?", ":", "\"", "<", ">", "|"}

\* The characters str.strip() removes, among those of the model's alphabet.
Whitespace == {" "}

(***************************************************************************)
(* String functions, as Python computes them.                              *)
(***************************************************************************)
RECURSIVE lstrip(_)
lstrip(s) ==
    IF s = <<>> THEN s
    ELSE IF Head(s) \in Whitespace THEN lstrip(Tail(s))
    ELSE s

RECURSIVE rstrip(_)
rstrip(s) ==
    IF s = <<>> THEN s
    ELSE IF s[Len(s)] \in Whitespace THEN rstrip(SubSeq(s, 1, Len(s) - 1))
    ELSE s

\* str.strip()
strip(s) == rstrip(lstrip(s))

\* text.split(sep)[0]: the text before the first sep, all of it when there is none
RECURSIVE split0(_, _)
split0(s, sep) ==
    IF s = <<>> THEN s
    ELSE IF Head(s) = sep THEN <<>>
    ELSE <<Head(s)>> \o split0(Tail(s), sep)

\* Mutant of re_sub: the character class lacks the colon.
re_sub_without_colon(text) == SelectSeq(text, LAMBDA c : c \notin (Forbidden \ {":"}))

\* re.sub(r'[\\/*?:"<>|]', "", text)
re_sub(text) == SelectSeq(text, LAMBDA c : c \notin Forbidden)

\* date_str[a:b] for 0 <= a <= b: Python clips a slice to the string
slice(s, a, b) ==
    LET hi == IF b < Len(s) THEN b ELSE Len(s)
    IN  IF a >= hi THEN <<>> ELSE SubSeq(s, a + 1, hi)

\* _clean_filename(text)
clean_filename(text) == strip(re_sub(text))

(***************************************************************************)
(* _fetch_metadata: from the first entry of `images` to WallpaperData.     *)
(***************************************************************************)
NoData == [none |-> TRUE]

WallpaperData(image_data) ==
    LET url_suffix == image_data.url
        copyright_text == image_data.copyright
        date_str == image_data.enddate
        full_url == BING_BASE_URL \o url_suffix
        title_clean == clean_filename(strip(split0(copyright_text, "(")))
        formatted_date == slice(date_str, 0, 4) \o <<"-">> \o slice(date_str, 4, 6)
                              \o <<"-">> \o slice(date_str, 6, Len(date_str))
        filename == formatted_date \o <<"_">> \o title_clean \o <<".", "j", "p", "g">>
    IN  [date_str |-> formatted_date,
         image_url |-> full_url,
         title |-> copyright_text,
         copyright |-> copyright_text,
         filename |-> filename]

(***************************************************************************)
(* HTTP responses.  A response is a network error (connection failure or   *)
(* timeout) or a status with a body.  A JSON object is a record holding    *)
(* the keys it has; the value of `images` is tagged with its JSON type.    *)
(***************************************************************************)
NetError == [net |-> "error"]
Http(status, body) == [net |-> "ok", status |-> status, body |-> body]

\* r.raise_for_status() raises HTTPError, a RequestException, for 4xx and 5xx
raise_for_status(r) == r.status >= 400 /\ r.status < 600

JsonArray(v) == [t |-> "arr", v |-> v]
JsonNull == [t |-> "null"]
ImagesBody(entries) == [images |-> JsonArray(entries)]

\* The exception the try block of _fetch_metadata raises on `r`, "none" if none.
fetch_raises(r) ==
    IF r.net = "error" THEN "RequestException"
    ELSE IF raise_for_status(r) THEN "RequestException"
    ELSE LET data == r.body IN
         IF "images" \notin DOMAIN data THEN "KeyError"
         ELSE IF data.images.t # "arr" THEN "TypeError"
         ELSE IF Len(data.images.v) = 0 THEN "IndexError"
         ELSE LET image_data == data.images.v[1] IN
              IF "url" \notin DOMAIN image_data THEN "KeyError"
              ELSE IF "copyright" \notin DOMAIN image_data THEN "KeyError"
              ELSE IF "enddate" \notin DOMAIN image_data THEN "KeyError"
              ELSE "none"

\* Mutant of FetchCaught: IndexError is not caught.
FetchCaughtWithoutIndexError == {"RequestException", "KeyError"}

\* The exception classes _fetch_metadata catches.
FetchCaught == {"RequestException", "KeyError", "IndexError"}

\* _fetch_metadata(): what it returns, or the exception that escapes it.
fetch_metadata(r) ==
    LET exc == fetch_raises(r) IN
    IF exc = "none"
    THEN [escapes |-> FALSE, value |-> WallpaperData(r.body.images.v[1])]
    ELSE IF exc \in FetchCaught
    THEN [escapes |-> FALSE, value |-> NoData]
    ELSE [escapes |-> TRUE, value |-> NoData]

(***************************************************************************)
(* The inputs of the model.                                                *)
(***************************************************************************)
Date1 == <<"2", "0", "2", "4", "0", "1", "1", "5">>
Date2 == <<"2", "0", "2", "4", "0", "1", "1", "6">>
EndDates == {Date1, Date2}

Url1 == <<"/th?id=ABC123">>

\* Two captions with the same text before the parenthesis.
CaptionX == <<"a", ":", " ", "(", "x", ")">>
CaptionY == <<"a", ":", " ", "(", "y", ")">>

Image(d, c) == [url |-> Url1, copyright |-> c, enddate |-> d]
OkResponse(d, c) == Http(200, ImagesBody(<<Image(d, c)>>))

\* Three records: the first two differ and have the same file name.
OkResponses ==
    {OkResponse(Date1, CaptionX), OkResponse(Date1, CaptionY), OkResponse(Date2, CaptionX)}

MissingImages == Http(200, [tooltips |-> TRUE])

\* The failures _fetch_metadata recovers from: a network error, an HTTP error
\* status, no `images` key, an empty `images` array, an entry without `url`,
\* without `copyright` or without `enddate`.
FailResponses ==
    {NetError,
     Http(500, [error |-> TRUE]),
     MissingImages,
     Http(200, ImagesBody(<<>>)),
     Http(200, ImagesBody(<<[copyright |-> CaptionX, enddate |-> Date1]>>)),
     Http(200, ImagesBody(<<[url |-> Url1, enddate |-> Date1]>>)),
     Http(200, ImagesBody(<<[url |-> Url1, copyright |-> CaptionX]>>))}

\* `images` is null: data["images"][0] raises TypeError, which is not caught.
BadResponses == {Http(200, [images |-> JsonNull])}

MetaResponses == OkResponses \cup FailResponses \cup BadResponses

Contents == {"jpeg1", "jpeg2"}
ImageResponses == {NetError, Http(500, "")} \cup {Http(200, b) : b \in Contents}

\* --market: the default and another
Markets == {"zh-CN", "en-US"}

\* How a write to the filesystem goes: it succeeds, open() raises OSError, or
\* open() truncates the file and a later write or flush raises OSError.
FsOutcomes == {"ok", "open_fails", "write_fails"}

(***************************************************************************)
(* The state.                                                              *)
(***************************************************************************)
NoResp == [none |-> TRUE]
NoPath == [none |-> TRUE]
NoFiles == [p \in {} |-> ""]
Foreign == [foreign |-> TRUE]    \* README.md content this program did not write

YearOf(day) == 2024 + (day \div DaysInYear)

Has(msg) == \E i \in DOMAIN log : log[i] = msg

Init ==
    /\ today = 0
    /\ market \in Markets
    /\ dirs = {}
    /\ files = NoFiles
    /\ readme = <<Foreign>>
    /\ pc = "idle"
    /\ exitCode = -1
    /\ resp = NoResp
    /\ metadata = NoData
    /\ year_dir = 0
    /\ save_path = NoPath
    /\ metaGets = 0
    /\ imgGets = 0
    /\ log = <<>>
    /\ runNo = 0
    /\ started = [day |-> 0, readme |-> <<Foreign>>, files |-> NoFiles, dirs |-> {}]
    /\ prev = [none |-> TRUE]
    /\ hist = [reached |-> NoData, docPath |-> NoPath]

fs == <<dirs, files, readme>>
locals == <<metadata, year_dir, save_path>>
gets == <<metaGets, imgGets>>
ghosts == <<runNo, started, prev>>

\* run() returns after logging `msgs`, and the process exits with status 0.
Return(msgs) ==
    /\ pc' = "exited"
    /\ exitCode' = 0
    /\ log' = log \o msgs

\* An exception reaches `except Exception` in run() after `msgs` were logged:
\* logger.exception, then sys.exit(1).
SysExit1(msgs) ==
    /\ pc' = "exited"
    /\ exitCode' = 1
    /\ log' = log \o msgs \o <<"critical_error">>

\* run() goes on to the step `next` after logging `msgs`.
Goto(next, msgs) ==
    /\ pc' = next
    /\ log' = log \o msgs
    /\ UNCHANGED exitCode

\* The process starts and run() is entered; the day may have advanced since
\* the last run.
Launch ==
    /\ pc \in {"idle", "exited"}
    /\ runNo < MaxRuns
    /\ runNo' = runNo + 1
    /\ today' \in today..MaxDay
    /\ pc' = "fetch"
    /\ resp' = NoResp
    /\ metadata' = NoData
    /\ year_dir' = 0
    /\ save_path' = NoPath
    /\ metaGets' = 0
    /\ imgGets' = 0
    /\ log' = <<>>
    /\ started' = [day |-> today', readme |-> readme, files |-> files, dirs |-> dirs]
    /\ prev' = IF pc = "idle" THEN prev
               ELSE [day |-> started.day, meta |-> metadata, exit |-> exitCode,
                     saved |-> Has("image_saved")]
    /\ hist' = IF Has("readme_updated") \/ Has("readme_failed")
               THEN [hist EXCEPT !.reached = metadata]
               ELSE hist
    /\ UNCHANGED <<fs, market, exitCode>>

\* _fetch_metadata, line 102: self.session.get(BING_API_URL, ...)
GetMetadata ==
    /\ pc = "fetch"
    /\ metaGets' = metaGets + 1
    /\ resp' \in MetaResponses
    /\ pc' = "fetched"
    /\ UNCHANGED <<today, fs, exitCode, market, locals, imgGets, log, ghosts, hist>>

\* _fetch_metadata, lines 103-128, and run(), lines 75-78
ParseMetadata ==
    /\ pc = "fetched"
    /\ LET r == fetch_metadata(resp) IN
       IF r.escapes
       THEN SysExit1(<<>>) /\ UNCHANGED metadata
       ELSE IF r.value = NoData
       THEN Return(<<"metadata_error", "no_metadata">>) /\ UNCHANGED metadata
       ELSE /\ metadata' = r.value
            /\ Goto("mkdir", <<"metadata_fetched">>)
    /\ UNCHANGED <<today, fs, market, resp, year_dir, save_path, gets, ghosts, hist>>

\* run(), lines 81-82: year_dir.mkdir(parents=True, exist_ok=True)
Mkdir ==
    /\ pc = "mkdir"
    /\ year_dir' = YearOf(today)
    /\ \E outcome \in {"ok", "fails"} :
          IF outcome = "ok"
          THEN /\ dirs' = dirs \cup {year_dir'}
               /\ Goto("exists", <<>>)
          ELSE /\ SysExit1(<<>>)
               /\ UNCHANGED dirs
    /\ UNCHANGED <<today, files, readme, market, resp, metadata, save_path, gets, ghosts, hist>>

\* Mutant of CheckExists: no existence check, the download always follows.
CheckExistsNoGuard ==
    /\ pc = "exists"
    /\ save_path' = [year |-> year_dir, name |-> metadata.filename]
    /\ Goto("download", <<>>)
    /\ UNCHANGED <<today, fs, market, resp, metadata, year_dir, gets, ghosts, hist>>

\* Mutant of CheckExists: an existing file skips the download and not the
\* README.md update.
CheckExistsThenUpdate ==
    /\ pc = "exists"
    /\ save_path' = [year |-> year_dir, name |-> metadata.filename]
    /\ IF save_path' \in DOMAIN files
       THEN Goto("readme", <<"file_exists">>)
       ELSE Goto("download", <<>>)
    /\ UNCHANGED <<today, fs, market, resp, metadata, year_dir, gets, ghosts, hist>>

\* run(), lines 84-88: the idempotence guard
CheckExists ==
    /\ pc = "exists"
    /\ save_path' = [year |-> year_dir, name |-> metadata.filename]
    /\ IF save_path' \in DOMAIN files
       THEN Return(<<"file_exists">>)
       ELSE Goto("download", <<>>)
    /\ UNCHANGED <<today, fs, market, resp, metadata, year_dir, gets, ghosts, hist>>

\* Mutant of Written: the file is written under output_dir, not under year_dir.
WrittenOutsideYear(path, bytes) ==
    LET flat == [year |-> 0, name |-> path.name]
    IN  [p \in DOMAIN files \cup {flat} |-> IF p = flat THEN bytes ELSE files[p]]

\* files with `bytes` written at `path`
Written(path, bytes) ==
    [p \in DOMAIN files \cup {path} |-> IF p = path THEN bytes ELSE files[p]]

\* Mutant of DownloadImage: the RequestException is logged and not raised again.
DownloadImageSwallow ==
    /\ pc = "download"
    /\ imgGets' = imgGets + 1
    /\ \E r \in ImageResponses, outcome \in FsOutcomes :
          IF r.net = "error" \/ raise_for_status(r)
          THEN /\ outcome = "ok"
               /\ Goto("readme", <<"download_failed">>)
               /\ UNCHANGED files
          ELSE IF outcome = "ok"
          THEN /\ files' = [p \in DOMAIN files \cup {save_path} |->
                               IF p = save_path THEN r.body ELSE files[p]]
               /\ Goto("readme", <<"image_saved">>)
          ELSE IF outcome = "open_fails"
          THEN /\ SysExit1(<<>>)
               /\ UNCHANGED files
          ELSE /\ SysExit1(<<>>)
               /\ files' = [p \in DOMAIN files \cup {save_path} |->
                               IF p = save_path THEN "" ELSE files[p]]
    /\ UNCHANGED <<today, dirs, readme, market, resp, locals, metaGets, ghosts, hist>>

\* Mutant of DownloadImage: a failed GET is tried once more.
DownloadImageRetry ==
    /\ pc = "download"
    /\ imgGets' = imgGets + 1
    /\ \E r \in ImageResponses, outcome \in FsOutcomes :
          IF r.net = "error" \/ raise_for_status(r)
          THEN /\ outcome = "ok"
               /\ IF imgGets = 0
                  THEN Goto("download", <<>>)
                  ELSE SysExit1(<<"download_failed">>)
               /\ UNCHANGED files
          ELSE IF outcome = "ok"
          THEN /\ files' = [p \in DOMAIN files \cup {save_path} |->
                               IF p = save_path THEN r.body ELSE files[p]]
               /\ Goto("readme", <<"image_saved">>)
          ELSE IF outcome = "open_fails"
          THEN /\ SysExit1(<<>>)
               /\ UNCHANGED files
          ELSE /\ SysExit1(<<>>)
               /\ files' = [p \in DOMAIN files \cup {save_path} |->
                               IF p = save_path THEN "" ELSE files[p]]
    /\ UNCHANGED <<today, dirs, readme, market, resp, locals, metaGets, ghosts, hist>>

\* run(), line 90: _download_image(metadata.image_url, save_path).  A
\* RequestException is logged and raised again; an OSError of open() or write()
\* is not caught there; both reach `except Exception` in run().
DownloadImage ==
    /\ pc = "download"
    /\ imgGets' = imgGets + 1
    /\ \E r \in ImageResponses, outcome \in FsOutcomes :
          IF r.net = "error" \/ raise_for_status(r)
          THEN /\ outcome = "ok"
               /\ SysExit1(<<"download_failed">>)
               /\ UNCHANGED files
          ELSE IF outcome = "ok"
          THEN /\ files' = Written(save_path, r.body)
               /\ Goto("readme", <<"image_saved">>)
          ELSE IF outcome = "open_fails"
          THEN /\ SysExit1(<<>>)
               /\ UNCHANGED files
          ELSE /\ SysExit1(<<>>)
               /\ files' = Written(save_path, "")
    /\ UNCHANGED <<today, dirs, readme, market, resp, locals, metaGets, ghosts, hist>>

\* The text _update_readme renders: the fixed template with its five fields.
content(mkt, data) ==
    [market |-> mkt,
     date_str |-> data.date_str,
     title |-> data.title,
     image_url |-> data.image_url,
     copyright |-> data.copyright]

\* Mutant of Overwrite: the file is opened in append mode.
OverwriteAppending(old, text) == old \o <<text>>

\* README.md after open(self.readme_path, "w") and f.write(text)
Overwrite(old, text) == <<text>>

\* Mutant of UpdateReadme: the IOError is logged and raised again.
UpdateReadmeReraise ==
    /\ pc = "readme"
    /\ \E outcome \in FsOutcomes :
          IF outcome = "ok"
          THEN /\ readme' = <<content(market, metadata)>>
               /\ hist' = [hist EXCEPT !.docPath = save_path]
               /\ Return(<<"readme_updated">>)
          ELSE IF outcome = "open_fails"
          THEN /\ UNCHANGED <<readme, hist>>
               /\ SysExit1(<<"readme_failed">>)
          ELSE /\ readme' = <<>>
               /\ hist' = [hist EXCEPT !.docPath = NoPath]
               /\ SysExit1(<<"readme_failed">>)
    /\ UNCHANGED <<today, dirs, files, market, resp, locals, gets, ghosts>>

\* run(), line 91: _update_readme(metadata).  IOError is caught and logged.
UpdateReadme ==
    /\ pc = "readme"
    /\ \E outcome \in FsOutcomes :
          IF outcome = "ok"
          THEN /\ readme' = Overwrite(readme, content(market, metadata))
               /\ hist' = [hist EXCEPT !.docPath = save_path]
               /\ Return(<<"readme_updated">>)
          ELSE IF outcome = "open_fails"
          THEN /\ UNCHANGED <<readme, hist>>
               /\ Return(<<"readme_failed">>)
          ELSE /\ readme' = <<>>
               /\ hist' = [hist EXCEPT !.docPath = NoPath]
               /\ Return(<<"readme_failed">>)
    /\ UNCHANGED <<today, dirs, files, market, resp, locals, gets, ghosts>>

Next ==
    \/ Launch
    \/ GetMetadata
    \/ ParseMetadata
    \/ Mkdir
    \/ CheckExists
    \/ DownloadImage
    \/ UpdateReadme

Spec == Init /\ [][Next]_vars

(***************************************************************************)
(* The derivation of the record alone: the state after the metadata GET    *)
(* has answered, over every caption of at most MaxLen characters of        *)
(* Alphabet and the caption of the worked example.                         *)
(***************************************************************************)
Alphabet == {"a", " ", "(", ":", "/"}

RECURSIVE Strings(_)
Strings(n) ==
    IF n = 0 THEN {<<>>}
    ELSE LET shorter == Strings(n - 1)
         IN  shorter \cup {<<c>> \o s : c \in Alphabet, s \in {t \in shorter : Len(t) = n - 1}}

MountainView ==
    <<"M", "o", "u", "n", "t", "a", "i", "n", " ", "V", "i", "e", "w", " ",
      "(", "(c)", " ", "E", "x", "a", "m", "p", "l", "e", " ", "C", "o", "r", "p", ")">>

InitFn ==
    /\ today = 0
    /\ market = "en-US"
    /\ dirs = {}
    /\ files = NoFiles
    /\ readme = <<Foreign>>
    /\ pc = "fetched"
    /\ exitCode = -1
    /\ resp \in {OkResponse(d, c) : d \in EndDates, c \in Strings(MaxLen) \cup {MountainView}}
    /\ metadata = NoData
    /\ year_dir = 0
    /\ save_path = NoPath
    /\ metaGets = 1
    /\ imgGets = 0
    /\ log = <<>>
    /\ runNo = 1
    /\ started = [day |-> 0, readme |-> <<Foreign>>, files |-> NoFiles, dirs |-> {}]
    /\ prev = [none |-> TRUE]
    /\ hist = [reached |-> NoData, docPath |-> NoPath]

NextFn == ParseMetadata

SpecFn == InitFn /\ [][NextFn]_vars

(***************************************************************************)
(* What the claims speak of.                                               *)
(***************************************************************************)
Min(S) == CHOOSE x \in S : \A y \in S : x <= y
Max(S) == CHOOSE x \in S : \A y \in S : x >= y

\* The run ended in a normal return of run().
NormalCompletion ==
    Has("no_metadata") \/ Has("file_exists") \/ Has("readme_updated") \/ Has("readme_failed")

\* The run reached the call of _update_readme.
ReachedUpdate == Has("readme_updated") \/ Has("readme_failed")

\* The filesystem is as it was when the run was launched.
NothingWritten ==
    /\ dirs = started.dirs
    /\ files = started.files
    /\ readme = started.readme

\* The previous run wrote its image and exited 0, on the same day and with the
\* same record as the current run.
SameDayRerun ==
    /\ runNo >= 2
    /\ metadata # NoData
    /\ prev.saved
    /\ prev.exit = 0
    /\ prev.day = started.day
    /\ prev.meta = metadata

\* The characters the specification lists.
ListedChars == {"\\", "/", "*", "?", ":", "\"", "<", ">", "|"}

\* The text before the first "(".
Before(s) ==
    LET at == {i \in 1..Len(s) : s[i] = "("}
    IN  IF at = {} THEN s ELSE SubSeq(s, 1, Min(at) - 1)

\* The text without its leading and trailing blanks.
Trim(s) ==
    LET solid == {i \in 1..Len(s) : s[i] # " "}
    IN  IF solid = {} THEN <<>> ELSE SubSeq(s, Min(solid), Max(solid))

\* The text without the listed characters.
RECURSIVE Without(_)
Without(s) ==
    IF Len(s) = 0 THEN <<>>
    ELSE Without(SubSeq(s, 1, Len(s) - 1))
             \o (IF s[Len(s)] \in ListedChars THEN <<>> ELSE <<s[Len(s)]>>)

\* YYYYMMDD as YYYY-MM-DD
IsoDate(d) == <<d[1], d[2], d[3], d[4], "-", d[5], d[6], "-", d[7], d[8]>>

Jpg == <<".", "j", "p", "g">>

\* The entry of `images` the current run received.
Entry == resp.body.images.v[1]

\* C1: a run exits 0 on every normal completion (no metadata, file already
\* exists, README.md written, README.md write failed with an I/O error) and 1
\* exactly when an exception escaped the steps of run(), as a failed image
\* download does.
C1_ExitStatus ==
    pc = "exited" =>
        /\ exitCode \in {0, 1}
        /\ (exitCode = 0 <=> NormalCompletion)
        /\ (exitCode = 1 <=> Has("critical_error"))
        /\ (Has("download_failed") => exitCode = 1)
        /\ (resp \in FailResponses => exitCode = 0)
        /\ (resp \in BadResponses => exitCode = 1)

C1_Witness ==
    /\ pc = "exited"
    /\ Has("readme_failed")
    /\ exitCode = 0

\* C2: a run whose image download failed (HTTP error status or network error)
\* exits non-zero and leaves README.md as it was before the run.
C2_DownloadFailure ==
    (pc = "exited" /\ Has("download_failed")) =>
        /\ exitCode # 0
        /\ readme = started.readme

C2_Witness ==
    /\ pc = "exited"
    /\ Has("download_failed")
    /\ exitCode = 1
    /\ hist.docPath # NoPath

\* C3: when the metadata fetch fails (network error, HTTP error status, no
\* `images` key, a missing field, an empty `images` array) the run exits 0 with
\* no record, no image GET and no write to the filesystem.
C3_MetadataFailure ==
    (pc = "exited" /\ resp \in FailResponses) =>
        /\ metadata = NoData
        /\ exitCode = 0
        /\ imgGets = 0
        /\ NothingWritten

C3_Witness ==
    /\ pc = "exited"
    /\ resp = MissingImages
    /\ exitCode = 0
    /\ files # NoFiles

\* C4: a run on the same day and with the same record as a previous run that
\* wrote its image issues the metadata GET and no image GET, and leaves the
\* image file as the first run wrote it.
C4_SameDayRerun ==
    SameDayRerun =>
        /\ imgGets = 0
        /\ metaGets = 1
        /\ files = started.files
        /\ (pc = "exited" /\ exitCode = 0 => Has("file_exists") /\ save_path \in DOMAIN files)

C4_Witness ==
    /\ pc = "exited"
    /\ SameDayRerun
    /\ Has("file_exists")
    /\ files[save_path] \in Contents

\* C5, as stated: after a run that reached the README.md update with record R2,
\* an earlier run having reached it with another record R1, README.md holds
\* R2's block and nothing else.
C5_AsStated ==
    (pc = "exited" /\ ReachedUpdate /\ hist.reached # NoData /\ hist.reached # metadata) =>
        readme = <<content(market, metadata)>>

\* C5, amended: the same when the second run's write completed without an I/O
\* error.
C5_FullReplacement ==
    (pc = "exited" /\ Has("readme_updated") /\ hist.reached # NoData
        /\ hist.reached # metadata) =>
        readme = <<content(market, metadata)>>

C5_Witness ==
    /\ pc = "exited"
    /\ Has("readme_updated")
    /\ hist.reached # NoData
    /\ hist.reached # metadata
    /\ started.readme = <<content(market, hist.reached)>>

\* C6: when the most recent run fetched a record R and exited 0, README.md
\* reflects R.
C6_LatestReflected ==
    (pc = "exited" /\ exitCode = 0 /\ metadata # NoData) =>
        readme = <<content(market, metadata)>>

\* C7, as stated: the file name is <YYYY-MM-DD>_<prefix>.jpg, the prefix being
\* the caption before its first "(", trimmed, with the listed characters removed.
C7_AsStated ==
    metadata # NoData =>
        metadata.filename =
            IsoDate(Entry.enddate) \o <<"_">> \o Without(Trim(Before(Entry.copyright))) \o Jpg

\* C7, amended: the prefix is the caption before its first "(", trimmed, with
\* the listed characters removed, and trimmed again; the file name holds none of
\* the listed characters; the worked example gives 2024-01-15 and
\* "2024-01-15_Mountain View.jpg".
C7_Filename ==
    metadata # NoData =>
        /\ metadata.date_str = IsoDate(Entry.enddate)
        /\ metadata.filename =
               IsoDate(Entry.enddate) \o <<"_">>
                   \o Trim(Without(Trim(Before(Entry.copyright)))) \o Jpg
        /\ \A i \in 1..Len(metadata.filename) : metadata.filename[i] \notin ListedChars
        /\ (Entry.enddate = Date1 /\ Entry.copyright = MountainView) =>
               /\ metadata.date_str = <<"2", "0", "2", "4", "-", "0", "1", "-", "1", "5">>
               /\ metadata.filename =
                      <<"2", "0", "2", "4", "-", "0", "1", "-", "1", "5", "_",
                        "M", "o", "u", "n", "t", "a", "i", "n", " ", "V", "i", "e", "w",
                        ".", "j", "p", "g">>

C7_Witness ==
    /\ metadata # NoData
    /\ Entry.copyright = <<"a", " ", ":", "(">>
    /\ metadata.filename = IsoDate(Entry.enddate) \o <<"_", "a">> \o Jpg

\* C8: a run that finds a file at its save path issues no image GET, writes
\* neither the image file nor README.md, and returns normally.
C8_IdempotenceGuard ==
    (pc = "exited" /\ save_path # NoPath /\ save_path \in DOMAIN started.files) =>
        /\ Has("file_exists")
        /\ imgGets = 0
        /\ files = started.files
        /\ readme = started.readme
        /\ exitCode = 0

C8_Witness ==
    /\ pc = "exited"
    /\ save_path # NoPath
    /\ save_path \in DOMAIN started.files
    /\ Has("file_exists")
    /\ prev.meta # metadata

\* C9: a run issues exactly one metadata GET and at most one image GET; after
\* a failed metadata GET it issues no other request and ends normally, after a
\* failed image GET it issues no other request and ends with status 1.
C9_NoRetry ==
    /\ metaGets <= 1
    /\ imgGets <= 1
    /\ (pc \notin {"idle", "fetch"} => metaGets = 1)
    /\ (resp \in FailResponses /\ pc # "fetched" => pc = "exited" /\ imgGets = 0 /\ exitCode = 0)
    /\ (Has("download_failed") => pc = "exited" /\ exitCode = 1)

C9_Witness ==
    /\ pc = "exited"
    /\ Has("download_failed")
    /\ metaGets = 1
    /\ imgGets = 1

\* C10: README.md is written only after the image write of the same run has
\* completed without error; whenever README.md shows a block this program wrote,
\* a file exists at the save path of the run that wrote it.
C10_ImageBeforeReadme ==
    /\ (pc = "readme" \/ ReachedUpdate) =>
           /\ Has("image_saved")
           /\ save_path \in DOMAIN files
           /\ files[save_path] \in Contents
    /\ hist.docPath # NoPath => hist.docPath \in DOMAIN files
    /\ readme \notin {<<>>, <<Foreign>>} => hist.docPath # NoPath

C10_Witness ==
    /\ pc = "exited"
    /\ Has("readme_updated")
    /\ hist.docPath = save_path
    /\ runNo >= 2
    /\ prev.exit = 1

====
